---- MODULE Spec2Model ----
(***************************************************************************)
(* Model of the paginated list-fetch hook useSwapiList (star-wars/App.js,  *)
(* both the plain and the network-detecting copy, and the FlatList copy).  *)
(* One hook instance, its React state, its abortRef, and the asynchronous  *)
(* requests it has started, each at its own await point.                   *)
(***************************************************************************)
EXTENDS Integers, Sequences, FiniteSets, TLC

\* ---------------------------------------------------------------- bounds
MaxRequests == 3      \* fetchPage calls issued in one behaviour
NumPages == 3         \* pages the backend chains before the null cursor
MaxDetailFetches == 3 \* runs of the detail screen's effect in one behaviour
MaxText == 2          \* characters typed into the search box
MaxPresses == 3       \* presses of the map screen's overlay buttons

\* ------------------------------------------------------------------ state
VARIABLES items, nextUrl, loading, refreshing, error, abortRef,
          reqs, mounted, netDetect, lastEvent, refreshPending,
          initialUrl, lastPage,
          planet, detailLoading, detailError, detailUrl, detailReqs, detailPhase,
          searchText,
          coords, activeOverlay, locStage, permission, positionRequests,
          coordsWrites, pressed, platformOS

hook == <<items, nextUrl, loading, refreshing, error>>

\* what no handler of the hook writes: the copy of the hook in use, the
\* number of pages the collection has and the screen's search text
fixed == <<netDetect, lastPage, searchText>>

\* the list screen's variables: the hook's, and the search text
list == <<items, nextUrl, loading, refreshing, error, abortRef,
          reqs, mounted, netDetect, lastEvent, refreshPending,
          initialUrl, lastPage, searchText>>

\* PlanetDetailScreen: its three useState cells (loading and error prefixed,
\* the list hook has cells of the same names), route.params.url, one entry
\* per run of its effect, and where the screen is in its life
detail == <<planet, detailLoading, detailError, detailUrl, detailReqs, detailPhase>>

\* the map screen (App of part_000): its two useState cells, where its
\* location effect is, the permission status it was given, the position
\* reads it has asked for, the calls of setCoords, the overlay buttons
\* pressed so far and Platform.OS
mapScreen == <<coords, activeOverlay, locStage, permission, positionRequests,
               coordsWrites, pressed, platformOS>>

vars == <<items, nextUrl, loading, refreshing, error, abortRef,
          reqs, mounted, netDetect, lastEvent, refreshPending,
          initialUrl, lastPage,
          planet, detailLoading, detailError, detailUrl, detailReqs, detailPhase,
          searchText,
          coords, activeOverlay, locStage, permission, positionRequests,
          coordsWrites, pressed, platformOS>>

\* ------------------------------------------------------ JavaScript values
JNull == "<null>"
JUndef == "<undefined>"

\* !v for the values a URL or cursor can take
Falsy(v) == v \in {JNull, JUndef, ""}

\* a || b
OrElse(a, b) == IF Falsy(a) THEN b ELSE a

\* String(v): a number and a string of the same digits give the same text
String(v) == v.digits

\* ------------------------------------------------------------ the backend
Url(k) == "u" \o ToString(k)

PageNo(u) == CHOOSE k \in 1..NumPages : Url(k) = u

\* a name is the sequence of its characters: record k is called "N" k
Name(k) == <<"N", ToString(k)>>

RawRecord(k) ==
    [uid  |-> [num |-> (k % 2 = 0), digits |-> ToString(k)],
     name |-> Name(k),
     url  |-> "d" \o ToString(k)]

\* page k holds records k and k+1: consecutive pages repeat one uid
PageRaw(k) == <<RawRecord(k), RawRecord(k + 1)>>

\* the cursor of page k: the next page, or one of the end-of-collection shapes
NextShapes(k) == IF k < lastPage THEN {Url(k + 1)} ELSE {JNull, JUndef, ""}

\* a second collection, for a screen whose initialUrl changes
AltUrl == "alt"

AltRaw == <<RawRecord(NumPages + 2)>>

Bodies(u) ==
    IF u = AltUrl
    THEN {[results |-> AltRaw, next |-> JNull]}
    ELSE {[results |-> PageRaw(PageNo(u)), next |-> c] : c \in NextShapes(PageNo(u))}

ErrStatuses == {404, 500}

NetworkErrors == {[name |-> "TypeError", message |-> "Network request failed"],
                  [name |-> "Error", message |-> ""]}

JsonError == [name |-> "SyntaxError", message |-> "JSON Parse error"]

AbortError == [name |-> "AbortError", message |-> "Aborted"]

HttpError(status) == [name |-> "Error", message |-> "HTTP " \o ToString(status)]

NoNetworkError == [name |-> "Error", message |-> "NO_NETWORK"]

NoNetworkMessage ==
    "No internet connection detected. Please check your network and pull to refresh once you're back online."

NetStates == [isConnected : BOOLEAN, isInternetReachable : {"true", "false", JNull}]

online(netState) == netState.isConnected /\ netState.isInternetReachable # "false"

\* --------------------------------------------------- the detail resource
\* the url field of record k of the list
DetailUrl(k) == "d" \o ToString(k)

DetailUrls == {DetailUrl(1), DetailUrl(2)}

\* the JavaScript object {}
EmptyObj == [k \in {} |-> ""]

\* the properties mapping the API holds for a detail url
Properties(u) == [name |-> "name of " \o u, climate |-> "climate of " \o u]

\* bodies a 2xx response can carry: the documented shape, a result without
\* properties, and an object without result
DetailBodies(u) == {[result |-> [properties |-> Properties(u)]],
                    [result |-> EmptyObj],
                    EmptyObj}

NoConnectionError == [name |-> "Error", message |-> "No internet connection"]

\* variant of getProps that hands on the whole result object
getProps_WholeResult(json) ==
    IF "result" \in DOMAIN json THEN json.result ELSE EmptyObj

\* json?.result?.properties || {}
getProps(json) ==
    IF "result" \in DOMAIN json /\ "properties" \in DOMAIN json.result
    THEN json.result.properties
    ELSE EmptyObj

DetailReqs == 1..Len(detailReqs)

DetailPending == [kind |-> "pending", json |-> EmptyObj, message |-> ""]

\* positions the device can report
Positions == [latitude : {43, 44}, longitude : {-79, -80}]

PermissionStatuses == {"granted", "denied", "undetermined"}

\* the map screen as useState leaves it, before its effect runs; coords is
\* the empty set for null and {c} for the coordinates c
MapCreated ==
    /\ coords = {}
    /\ activeOverlay = "ipa"
    /\ locStage = "created"
    /\ permission = JNull
    /\ positionRequests = 0
    /\ coordsWrites = 0
    /\ pressed = <<>>

\* PlanetDetailScreen as useState leaves it, before its effect runs; planet
\* is the empty set for null and {P} for the mapping P
DetailCreated ==
    /\ detailUrl = DetailUrl(1)
    /\ planet = {}
    /\ detailLoading = TRUE
    /\ detailError = JNull
    /\ detailReqs = <<>>
    /\ detailPhase = "created"

\* ------------------------------------------------------------- parsePage
\* variant of MapRecords that returns the records in reverse order
MapRecords_Reversed(raw) ==
    [i \in 1..Len(raw) |->
        [id |-> String(raw[Len(raw) + 1 - i].uid), name |-> raw[Len(raw) + 1 - i].name,
         url |-> raw[Len(raw) + 1 - i].url]]

MapRecords(raw) == [i \in 1..Len(raw) |->
                      [id |-> String(raw[i].uid), name |-> raw[i].name, url |-> raw[i].url]]

\* variant of parsePage that never hands on a cursor
parsePage_DropsCursor(json) == [records |-> MapRecords(json.results), next |-> JNull]

parsePage(json) == [records |-> MapRecords(json.results), next |-> OrElse(json.next, JNull)]

hasMore == ~Falsy(nextUrl)

\* ------------------------------------------------------ the search filter
\* characters of a search text: a letter in both cases, two digits, a blank
Chars == {"N", "n", "1", "3", " "}

\* search texts of up to MaxText characters
SearchTexts == UNION {[1..n -> Chars] : n \in 0..MaxText}

\* String.prototype.toLowerCase, character by character
toLowerCase(str) == [i \in 1..Len(str) |-> IF str[i] = "N" THEN "n" ELSE str[i]]

RECURSIVE trimStart(_)
trimStart(str) ==
    IF str # <<>> /\ Head(str) = " " THEN trimStart(Tail(str)) ELSE str

RECURSIVE trimEnd(_)
trimEnd(str) ==
    IF str # <<>> /\ str[Len(str)] = " " THEN trimEnd(SubSeq(str, 1, Len(str) - 1)) ELSE str

\* variant of trim that leaves trailing blanks
trim_LeadingOnly(str) == trimStart(str)

\* String.prototype.trim
trim(str) == trimEnd(trimStart(str))

\* String.prototype.includes
includes(str, part) ==
    \E i \in 0..(Len(str) - Len(part)) : SubSeq(str, i + 1, i + Len(part)) = part

normalizedSearch == toLowerCase(trim(searchText))

filteredItems ==
    IF Len(normalizedSearch) = 0
    THEN items
    ELSE SelectSeq(items, LAMBDA item : includes(toLowerCase(item.name), normalizedSearch))

\* variant of showNoMatches that does not look at loading
showNoMatches_IgnoresLoading ==
    error = JNull /\ Len(items) > 0 /\ Len(filteredItems) = 0

showNoMatches ==
    ~loading /\ error = JNull /\ Len(items) > 0 /\ Len(filteredItems) = 0

\* the condition under which "No data yet." is rendered
showNoData == Len(items) = 0 /\ ~loading /\ error = JNull

Reqs == 1..Len(reqs)

InFlight(r) == reqs[r].stage # "done"

Quiescent == \A r \in Reqs : ~InFlight(r)

\* the hook as useState/useRef leave it, before the mount effect runs
Created ==
    /\ initialUrl = Url(1)
    /\ items = <<>>
    /\ nextUrl = initialUrl
    /\ loading = FALSE
    /\ refreshing = FALSE
    /\ error = JNull
    /\ abortRef = 0
    /\ reqs = <<>>
    /\ mounted = FALSE
    /\ netDetect \in BOOLEAN
    /\ lastEvent = "create"
    /\ refreshPending = FALSE
    /\ searchText = <<>>
    /\ DetailCreated
    /\ MapCreated

Init == Created /\ lastPage = NumPages /\ platformOS = "ios"

\* the same hook against a collection of any length from one page up
InitPages == Created /\ lastPage \in 1..NumPages /\ platformOS = "ios"

\* the map screen on each platform, the list hook left as constructed
InitMap == Created /\ netDetect = TRUE /\ lastPage = NumPages /\ platformOS \in {"ios", "android", "web"}

\* --------------------------------------------------------------- requests
NoJson == [results |-> <<>>, next |-> JNull]

Pending == [kind |-> "pending", json |-> NoJson, message |-> ""]

NewRequest(url, mode) ==
    [url |-> url, mode |-> mode,
     stage |-> IF netDetect THEN "net" ELSE "fetch",
     sent |-> ~netDetect,
     aborted |-> FALSE, superseded |-> FALSE,
     result |-> Pending]

\* variant of AbortPrev that forgets to abort the stored controller
AbortPrev_NoAbort(rs, ref) == rs

\* abortRef.current.abort(): the signal of the stored controller is aborted;
\* superseded remembers that the request had not settled at that moment
AbortPrev(rs, ref) ==
    IF ref = 0 THEN rs
    ELSE [rs EXCEPT ![ref].aborted = TRUE,
                    ![ref].superseded = @ \/ rs[ref].stage # "done"]

\* variant of applyRecords that puts the new page in front
applyRecords_Prepend(prev, records, mode) ==
    IF mode = "replace" THEN records ELSE records \o prev

\* variant of applyRecords that drops records whose id is already listed
applyRecords_Dedup(prev, records, mode) ==
    IF mode = "replace" THEN records
    ELSE prev \o SelectSeq(records, LAMBDA x : \A i \in 1..Len(prev) : prev[i].id # x.id)

\* setItems((prev) => mode === "replace" ? records : [...prev, ...records])
applyRecords(prev, records, mode) ==
    IF mode = "replace" THEN records ELSE prev \o records

\* variant of catchError that shows the raw message
catchError_RawMessage(e, prev) ==
    IF e.name = "AbortError" THEN prev ELSE e.message

\* the catch block: the value of error after an exception e
catchError(e, prev) ==
    IF e.name = "AbortError" THEN prev
    ELSE IF netDetect /\ e.message = "NO_NETWORK" THEN NoNetworkMessage
    ELSE OrElse(e.message, "Something went wrong")

\* variant of fetchPage that leaves the previous error in place
fetchPage_KeepsError(url, mode) ==
    IF Falsy(url)
    THEN UNCHANGED <<loading, error, abortRef, reqs>>
    ELSE /\ loading' = TRUE
         /\ error' = error
         /\ reqs' = Append(AbortPrev(reqs, abortRef), NewRequest(url, mode))
         /\ abortRef' = Len(reqs) + 1

\* fetchPage up to its first await
fetchPage(url, mode) ==
    IF Falsy(url)
    THEN UNCHANGED <<loading, error, abortRef, reqs>>
    ELSE /\ loading' = TRUE
         /\ error' = JNull
         /\ reqs' = Append(AbortPrev(reqs, abortRef), NewRequest(url, mode))
         /\ abortRef' = Len(reqs) + 1

\* variant of Thrown whose finally does not reset the flags
Thrown_KeepsLoading(r, e) ==
    /\ error' = catchError(e, error)
    /\ reqs' = [reqs EXCEPT ![r].stage = "done",
                            ![r].result = [kind |-> IF e.name = "AbortError" THEN "abort" ELSE "error",
                                           json |-> NoJson, message |-> e.message]]
    /\ refreshPending' = (refreshPending /\ r # Len(reqs))
    /\ UNCHANGED <<items, nextUrl, loading, refreshing>>

\* variant of Thrown that starts the failed request again by itself
Thrown_AutoRetry(r, e) ==
    /\ error' = catchError(e, error)
    /\ loading' = (e.name # "AbortError")
    /\ refreshing' = FALSE
    /\ reqs' = LET settled == [reqs EXCEPT ![r].stage = "done",
                                  ![r].result = [kind |-> IF e.name = "AbortError" THEN "abort" ELSE "error",
                                                 json |-> NoJson, message |-> e.message]]
               IN IF e.name # "AbortError" /\ Len(reqs) < MaxRequests
                  THEN Append(settled, NewRequest(reqs[r].url, reqs[r].mode))
                  ELSE settled
    /\ refreshPending' = (refreshPending /\ r # Len(reqs))
    /\ UNCHANGED <<items, nextUrl>>

\* variant of Thrown whose finally resets loading only
Thrown_KeepsRefreshing(r, e) ==
    /\ error' = catchError(e, error)
    /\ loading' = FALSE
    /\ reqs' = [reqs EXCEPT ![r].stage = "done",
                            ![r].result = [kind |-> IF e.name = "AbortError" THEN "abort" ELSE "error",
                                           json |-> NoJson, message |-> e.message]]
    /\ refreshPending' = (refreshPending /\ r # Len(reqs))
    /\ UNCHANGED <<items, nextUrl, refreshing>>

\* fetchPage from a rejected await to its end: catch, then finally
Thrown(r, e) ==
    /\ error' = catchError(e, error)
    /\ loading' = FALSE
    /\ refreshing' = FALSE
    /\ reqs' = [reqs EXCEPT ![r].stage = "done",
                            ![r].result = [kind |-> IF e.name = "AbortError" THEN "abort" ELSE "error",
                                           json |-> NoJson, message |-> e.message]]
    /\ refreshPending' = (refreshPending /\ r # Len(reqs))
    /\ UNCHANGED <<items, nextUrl>>

\* fetchPage from the resolved res.json() to its end: the setters, then finally
Parsed(r, json) ==
    /\ items' = applyRecords(items, parsePage(json).records, reqs[r].mode)
    /\ nextUrl' = OrElse(parsePage(json).next, JNull)
    /\ loading' = FALSE
    /\ refreshing' = FALSE
    /\ reqs' = [reqs EXCEPT ![r].stage = "done",
                            ![r].result = [kind |-> "ok", json |-> json, message |-> ""]]
    /\ refreshPending' = (refreshPending /\ r # Len(reqs))
    /\ UNCHANGED error

\* ------------------------------------------------------------- operations
\* the effect of useEffect on mount
Mount ==
    /\ ~mounted
    /\ lastEvent = "create"
    /\ Len(reqs) < MaxRequests
    /\ mounted' = TRUE
    /\ items' = <<>>
    /\ nextUrl' = initialUrl
    /\ fetchPage(initialUrl, "replace")
    /\ lastEvent' = "mount"
    /\ UNCHANGED <<refreshing, fixed, detail, mapScreen, initialUrl, refreshPending>>

\* useEffect when initialUrl changes identity: the cleanup of the previous
\* run, then the effect with the new initialUrl
Reset ==
    /\ mounted
    /\ initialUrl # AltUrl
    /\ Len(reqs) < MaxRequests
    /\ initialUrl' = AltUrl
    /\ items' = <<>>
    /\ nextUrl' = AltUrl
    /\ fetchPage(AltUrl, "replace")
    /\ lastEvent' = "reset"
    /\ UNCHANGED <<refreshing, mounted, fixed, detail, mapScreen, refreshPending>>

\* the cleanup of useEffect on unmount
Unmount ==
    /\ mounted
    /\ mounted' = FALSE
    /\ reqs' = AbortPrev(reqs, abortRef)
    /\ lastEvent' = "unmount"
    /\ UNCHANGED <<items, nextUrl, loading, refreshing, error, abortRef, fixed, detail, mapScreen, initialUrl, refreshPending>>

\* variant of refresh that keeps the old list while the request runs
refresh_KeepsItems ==
    /\ mounted
    /\ Len(reqs) < MaxRequests
    /\ refreshing' = TRUE
    /\ fetchPage(initialUrl, "replace")
    /\ lastEvent' = "refresh"
    /\ refreshPending' = TRUE
    /\ UNCHANGED <<items, nextUrl, mounted, fixed, detail, mapScreen, initialUrl>>

refresh ==
    /\ mounted
    /\ Len(reqs) < MaxRequests
    /\ refreshing' = TRUE
    /\ items' = <<>>
    /\ fetchPage(initialUrl, "replace")
    /\ lastEvent' = "refresh"
    /\ refreshPending' = TRUE
    /\ UNCHANGED <<nextUrl, mounted, fixed, detail, mapScreen, initialUrl>>

\* variant of canLoadMore that does not look at loading
canLoadMore_IgnoresLoading(isLoading, next) == ~Falsy(next)

\* the condition of loadMore: !loading && nextUrl
canLoadMore(isLoading, next) == ~isLoading /\ ~Falsy(next)

loadMore ==
    /\ mounted
    /\ canLoadMore(loading, nextUrl) => Len(reqs) < MaxRequests
    /\ IF canLoadMore(loading, nextUrl)
       THEN fetchPage(nextUrl, "append")
       ELSE UNCHANGED <<loading, error, abortRef, reqs>>
    /\ lastEvent' = "loadMore"
    /\ UNCHANGED <<items, nextUrl, refreshing, mounted, fixed, detail, mapScreen, initialUrl, refreshPending>>

\* onChangeText of the search box: setSearchText(text)
SetSearchText ==
    /\ mounted
    /\ \E text \in SearchTexts \ {searchText} : searchText' = text
    /\ UNCHANGED <<hook, abortRef, reqs, mounted, netDetect, lastPage, detail, mapScreen,
                   initialUrl, lastEvent, refreshPending>>

\* ----------------------------------------------------------- continuations
\* await NetInfo.fetch() resolves (network-detecting copy only)
NetInfoResolved(r) ==
    /\ reqs[r].stage = "net"
    /\ \E netState \in NetStates :
         IF ~online(netState)
         THEN Thrown(r, NoNetworkError)
         ELSE IF reqs[r].aborted
         THEN Thrown(r, AbortError)
         ELSE /\ reqs' = [reqs EXCEPT ![r].stage = "fetch", ![r].sent = TRUE]
              /\ UNCHANGED <<hook, refreshPending>>
    /\ lastEvent' = "netinfo"
    /\ UNCHANGED <<abortRef, mounted, fixed, detail, mapScreen, initialUrl>>

\* await fetch(url, { signal }) settles
FetchSettled(r) ==
    /\ reqs[r].stage = "fetch"
    /\ IF reqs[r].aborted
       THEN Thrown(r, AbortError)
       ELSE \/ /\ reqs' = [reqs EXCEPT ![r].stage = "body"]
               /\ UNCHANGED <<hook, refreshPending>>
            \/ \E status \in ErrStatuses : Thrown(r, HttpError(status))
            \/ \E e \in NetworkErrors : Thrown(r, e)
    /\ lastEvent' = "response"
    /\ UNCHANGED <<abortRef, mounted, fixed, detail, mapScreen, initialUrl>>

\* await res.json() settles; an abort that arrives after the response was
\* received interrupts the body read on some platforms and not on others
BodySettled(r) ==
    /\ reqs[r].stage = "body"
    /\ \/ /\ reqs[r].aborted
          /\ Thrown(r, AbortError)
       \/ \E json \in Bodies(reqs[r].url) : Parsed(r, json)
       \/ Thrown(r, JsonError)
    /\ lastEvent' = "body"
    /\ UNCHANGED <<abortRef, mounted, fixed, detail, mapScreen, initialUrl>>

\* ------------------------------------------------- PlanetDetailScreen
\* one run of the effect: its closure's mounted flag, the awaits it is at,
\* the GETs it has issued and what it settled with
DetailNewRequest(u) ==
    [url |-> u, stage |-> "net", mounted |-> TRUE, gets |-> 0, result |-> DetailPending]

\* variant of DetailCleanup that leaves the flag set
DetailCleanup_Noop(rs) == rs

\* the effect's cleanup: mounted = false in the closure of the latest run
DetailCleanup(rs) ==
    IF Len(rs) = 0 THEN rs ELSE [rs EXCEPT ![Len(rs)].mounted = FALSE]

\* the effect body up to the first await
fetchDetail(u) ==
    /\ detailReqs' = Append(DetailCleanup(detailReqs), DetailNewRequest(u))
    /\ detailLoading' = TRUE
    /\ detailError' = JNull

\* catch and finally of fetchDetail
DetailThrown(r, e) ==
    /\ detailReqs' = [detailReqs EXCEPT ![r].stage = "done",
                         ![r].result = [kind |-> "error", json |-> EmptyObj, message |-> e.message]]
    /\ IF detailReqs[r].mounted
       THEN /\ detailError' = OrElse(e.message, "Failed to load planet")
            /\ detailLoading' = FALSE
       ELSE UNCHANGED <<detailError, detailLoading>>
    /\ UNCHANGED planet

\* the end of the try block and finally of fetchDetail
DetailParsed(r, json) ==
    /\ detailReqs' = [detailReqs EXCEPT ![r].stage = "done",
                         ![r].result = [kind |-> "ok", json |-> json, message |-> ""]]
    /\ IF detailReqs[r].mounted
       THEN /\ planet' = {getProps(json)}
            /\ detailLoading' = FALSE
       ELSE UNCHANGED <<planet, detailLoading>>
    /\ UNCHANGED detailError

\* the effect on mount
DetailMount ==
    /\ detailPhase = "created"
    /\ detailPhase' = "mounted"
    /\ fetchDetail(detailUrl)
    /\ UNCHANGED <<planet, detailUrl, list, mapScreen>>

\* route.params.url changes: cleanup of the previous run, then the effect
DetailUrlChange ==
    /\ detailPhase = "mounted"
    /\ Len(detailReqs) < MaxDetailFetches
    /\ \E u \in DetailUrls \ {detailUrl} :
         /\ detailUrl' = u
         /\ fetchDetail(u)
    /\ UNCHANGED <<planet, detailPhase, list, mapScreen>>

\* the screen unmounts: cleanup of the last run
DetailUnmount ==
    /\ detailPhase = "mounted"
    /\ detailPhase' = "unmounted"
    /\ detailReqs' = DetailCleanup(detailReqs)
    /\ UNCHANGED <<planet, detailLoading, detailError, detailUrl, list, mapScreen>>

\* await NetInfo.fetch() resolves; online, fetch(url) is called
DetailNetInfoResolved(r) ==
    /\ detailReqs[r].stage = "net"
    /\ \E netState \in NetStates :
         IF ~online(netState)
         THEN DetailThrown(r, NoConnectionError)
         ELSE /\ detailReqs' = [detailReqs EXCEPT ![r].stage = "fetch",
                                   ![r].gets = detailReqs[r].gets + 1]
              /\ UNCHANGED <<planet, detailLoading, detailError>>
    /\ UNCHANGED <<detailUrl, detailPhase, list, mapScreen>>

\* await fetch(url) settles
DetailFetchSettled(r) ==
    /\ detailReqs[r].stage = "fetch"
    /\ \/ \E e \in NetworkErrors : DetailThrown(r, e)
       \/ \E status \in ErrStatuses : DetailThrown(r, HttpError(status))
       \/ /\ detailReqs' = [detailReqs EXCEPT ![r].stage = "body"]
          /\ UNCHANGED <<planet, detailLoading, detailError>>
    /\ UNCHANGED <<detailUrl, detailPhase, list, mapScreen>>

\* await res.json() settles
DetailBodySettled(r) ==
    /\ detailReqs[r].stage = "body"
    /\ \/ DetailThrown(r, JsonError)
       \/ \E json \in DetailBodies(detailReqs[r].url) : DetailParsed(r, json)
    /\ UNCHANGED <<detailUrl, detailPhase, list, mapScreen>>

\* ------------------------------------------------------- the map screen
isNative == platformOS \in {"ios", "android"}

\* the location effect up to await requestForegroundPermissionsAsync()
MapMount ==
    /\ locStage = "created"
    /\ locStage' = "permission"
    /\ UNCHANGED <<coords, activeOverlay, permission, positionRequests, coordsWrites,
                   pressed, platformOS, list, detail>>

\* variant of PermissionResolved that asks for the position whatever the status
PermissionResolved_IgnoresStatus(status) ==
    /\ locStage = "permission"
    /\ permission' = status
    /\ locStage' = "position"
    /\ positionRequests' = positionRequests + 1
    /\ UNCHANGED <<coords, activeOverlay, coordsWrites, pressed, platformOS, list, detail>>

\* the permission request resolves with a status: anything but "granted"
\* returns, "granted" calls getCurrentPositionAsync
PermissionResolved(status) ==
    /\ locStage = "permission"
    /\ permission' = status
    /\ IF status # "granted"
       THEN /\ locStage' = "returned"
            /\ UNCHANGED positionRequests
       ELSE /\ locStage' = "position"
            /\ positionRequests' = positionRequests + 1
    /\ UNCHANGED <<coords, activeOverlay, coordsWrites, pressed, platformOS, list, detail>>

\* either await rejects: the async function ends, nothing catches
LocationRejected ==
    /\ locStage \in {"permission", "position"}
    /\ locStage' = "rejected"
    /\ UNCHANGED <<coords, activeOverlay, permission, positionRequests, coordsWrites,
                   pressed, platformOS, list, detail>>

\* getCurrentPositionAsync resolves: setCoords(current.coords)
PositionResolved(current) ==
    /\ locStage = "position"
    /\ coords' = {current}
    /\ coordsWrites' = coordsWrites + 1
    /\ locStage' = "done"
    /\ UNCHANGED <<activeOverlay, permission, positionRequests, pressed, platformOS,
                   list, detail>>

\* variant of PressOverlay that flips the overlay whatever the button
PressOverlay_Flips(value) ==
    /\ coords # {}
    /\ isNative
    /\ Len(pressed) < MaxPresses
    /\ activeOverlay' = IF activeOverlay = "ipa" THEN "stout" ELSE "ipa"
    /\ pressed' = Append(pressed, value)
    /\ UNCHANGED <<coords, locStage, permission, positionRequests, coordsWrites,
                   platformOS, list, detail>>

\* onPress of an overlay button, rendered once coords is set and only on
\* ios and android: setActiveOverlay(value)
PressOverlay(value) ==
    /\ coords # {}
    /\ isNative
    /\ Len(pressed) < MaxPresses
    /\ activeOverlay' = value
    /\ pressed' = Append(pressed, value)
    /\ UNCHANGED <<coords, locStage, permission, positionRequests, coordsWrites,
                   platformOS, list, detail>>

NextMap ==
    \/ MapMount
    \/ \E status \in PermissionStatuses : PermissionResolved(status)
    \/ LocationRejected
    \/ \E current \in Positions : PositionResolved(current)
    \/ \E value \in {"ipa", "stout"} : PressOverlay(value)

SpecMap == InitMap /\ [][NextMap]_vars

\* the polygons the render puts on the map
polygons == {o \in {"ipa", "stout"} : activeOverlay = o}

NextDetail ==
    \/ DetailMount
    \/ DetailUrlChange
    \/ DetailUnmount
    \/ \E r \in DetailReqs : DetailNetInfoResolved(r)
    \/ \E r \in DetailReqs : DetailFetchSettled(r)
    \/ \E r \in DetailReqs : DetailBodySettled(r)

\* the detail screen alone, the list hook left as constructed
SpecDetail == Init /\ [][NextDetail]_vars

Next ==
    \/ Mount
    \/ Unmount
    \/ refresh
    \/ loadMore
    \/ \E r \in Reqs : NetInfoResolved(r)
    \/ \E r \in Reqs : FetchSettled(r)
    \/ \E r \in Reqs : BodySettled(r)

Spec == Init /\ [][Next]_vars

NextReset == Next \/ Reset

\* the hook of a screen whose initialUrl may change once
SpecReset == Init /\ [][NextReset]_vars

SpecPages == InitPages /\ [][Next]_vars

\* every await of every issued request eventually settles
Fairness ==
    /\ WF_vars(\E r \in Reqs : NetInfoResolved(r))
    /\ WF_vars(\E r \in Reqs : FetchSettled(r))
    /\ WF_vars(\E r \in Reqs : BodySettled(r))

SpecFair == Spec /\ Fairness

TypeOK ==
    /\ loading \in BOOLEAN
    /\ refreshing \in BOOLEAN
    /\ abortRef \in 0..MaxRequests
    /\ Len(reqs) <= MaxRequests

\* --------------------------------------------- the search box by itself
RECURSIVE PagesUpTo(_)
\* the parsed records of pages 1..k, in page order
PagesUpTo(k) == IF k = 0 THEN <<>> ELSE PagesUpTo(k - 1) \o MapRecords(PageRaw(k))

\* states a list screen of the network-detecting copy is rendered in: k pages
\* listed with the cursor after them, idle, loading, or idle with an error
InitFilter ==
    /\ initialUrl = Url(1)
    /\ lastPage = NumPages
    /\ netDetect = TRUE
    /\ mounted = TRUE
    /\ \E k \in 0..NumPages :
         /\ items = PagesUpTo(k)
         /\ nextUrl = IF k < NumPages THEN Url(k + 1) ELSE JNull
    /\ \E shown \in {<<FALSE, JNull>>, <<TRUE, JNull>>, <<FALSE, "HTTP 500">>,
                      <<FALSE, NoNetworkMessage>>} :
         /\ loading = shown[1]
         /\ error = shown[2]
    /\ refreshing = FALSE
    /\ abortRef = 0
    /\ reqs = <<>>
    /\ lastEvent = "create"
    /\ refreshPending = FALSE
    /\ searchText = <<>>
    /\ DetailCreated
    /\ MapCreated
    /\ platformOS = "ios"

NextFilter == SetSearchText

\* the filter and the two messages as functions of what the hook returned
\* and of the text typed
SpecFilter == InitFilter /\ [][NextFilter]_vars

\* ------------------------------------------------------ derived notions
\* request r settles in this step
Settles(r) == InFlight(r) /\ reqs'[r].stage = "done"

\* request r was aborted by a newer fetchPage call while still in flight
Superseded(r) == r < Len(reqs) /\ reqs[r].superseded

\* the value of error after a failure with message m
MessageShown(m) ==
    IF m = "NO_NETWORK" THEN NoNetworkMessage
    ELSE IF m = "" THEN "Something went wrong" ELSE m

\* ----------------------------------------------------------------- claims

\* C1: a step that settles a request superseded by a newer fetchPage call
\* never changes items or nextUrl, whatever the order of completions.
C1_SupersededNeverApplied ==
    [][\A r \in Reqs : (Superseded(r) /\ Settles(r)) =>
                          (items' = items /\ nextUrl' = nextUrl)]_vars

\* C2: when a second load was issued before the first settled and both have
\* settled, items, nextUrl and error are what the second call alone produces
\* from the state the second call started in (items cleared, cursor initial).
C2_SecondAloneDecides ==
    (mounted /\ Len(reqs) = 2 /\ reqs[1].superseded /\ Quiescent) =>
        LET res == reqs[2].result IN
        IF res.kind = "ok"
        THEN /\ items = parsePage(res.json).records
             /\ nextUrl = (IF Falsy(res.json.next) THEN JNull ELSE res.json.next)
             /\ error = JNull
        ELSE /\ items = <<>>
             /\ nextUrl = initialUrl
             /\ error = MessageShown(res.message)

\* C3: handling the delivered body of a superseded request (the abort did not
\* interrupt the body read) changes none of items, nextUrl and error.
C3_StaleBodyDiscarded ==
    [][\A r \in Reqs : (Superseded(r) /\ reqs[r].stage = "body" /\ Settles(r)
                          /\ reqs'[r].result.kind # "abort") =>
                          (items' = items /\ nextUrl' = nextUrl /\ error' = error)]_vars

\* C4: at most one request is live (neither aborted nor settled); every request
\* but the most recently issued one has been aborted, and abortRef holds the
\* controller of the most recently issued one.
C4_AtMostOneLive ==
    /\ Cardinality({r \in Reqs : InFlight(r) /\ ~reqs[r].aborted}) <= 1
    /\ \A r \in Reqs : r < Len(reqs) => reqs[r].aborted
    /\ abortRef = Len(reqs)

C4_Witness ==
    /\ Len(reqs) = 3
    /\ InFlight(1) /\ InFlight(2) /\ InFlight(3)
    /\ ~reqs[3].aborted

\* C5: the settling of a load cancelled in favour of a newer load leaves
\* loading and refreshing as the newer call set them while the newer request
\* is still in flight.
C5_CancelledSettleKeepsFlags ==
    [][\A r \in Reqs : (Superseded(r) /\ Settles(r) /\ reqs'[r].result.kind = "abort"
                          /\ InFlight(Len(reqs))) =>
                          (loading' = loading /\ refreshing' = refreshing)]_vars

\* C6: when, after a refresh, the most recently issued request settles with
\* success (the controller settles), items is exactly the first page's
\* records, whatever was in flight and whatever the user did meanwhile.
C6_RefreshYieldsFirstPage ==
    [][(mounted /\ refreshPending /\ Settles(Len(reqs))
          /\ reqs'[Len(reqs)].result.kind = "ok") =>
            items' = MapRecords(PageRaw(1))]_vars

\* only the mount and loadMore calls have been made and no request has failed
OnlyLoadMores ==
    \A r \in Reqs : /\ reqs[r].mode = (IF r = 1 THEN "replace" ELSE "append")
                    /\ reqs[r].result.kind \in {"pending", "ok"}

\* C7: in a run of loadMore calls whose requests all succeed, the settling of
\* a loadMore appends exactly the records of the page the cursor pointed to,
\* so that items is the concatenation of pages 1..k in page order.
C7_LoadMoreAppendsNextPage ==
    [][\A r \in Reqs : (OnlyLoadMores' /\ r > 1 /\ Settles(r)) =>
            /\ reqs[r].url = nextUrl
            /\ items' = items \o MapRecords(PageRaw(PageNo(nextUrl)))
            /\ items' = PagesUpTo(PageNo(nextUrl))]_vars

C7_Witness ==
    /\ OnlyLoadMores
    /\ Len(reqs) = 3
    /\ Quiescent
    /\ Len(items) = 6

\* C8: loadMore changes nothing and issues nothing when loading is true or
\* nextUrl is none; otherwise it issues exactly one request, for nextUrl, in
\* append mode.
C8_LoadMoreGuard ==
    [][lastEvent' = "loadMore" =>
          IF loading \/ nextUrl \in {JNull, JUndef, ""}
          THEN hook' = hook /\ reqs' = reqs /\ abortRef' = abortRef
          ELSE /\ Len(reqs') = Len(reqs) + 1
               /\ reqs'[Len(reqs')].url = nextUrl
               /\ reqs'[Len(reqs')].mode = "append"
               /\ reqs'[Len(reqs')].stage # "done"
               /\ items' = items /\ nextUrl' = nextUrl]_vars

C8_Witness ==
    /\ lastEvent = "loadMore"
    /\ loading
    /\ Len(reqs) = 1
    /\ ~reqs[1].aborted

\* C9: when a request that was not aborted succeeds, replace mode makes items
\* exactly the parsed records, append mode makes items the previous items
\* followed by the parsed records (length grows by their number), and nextUrl
\* becomes the cursor, or none when the cursor is null, absent or empty.
C9_SuccessApplies ==
    [][\A r \in Reqs : (~reqs[r].aborted /\ Settles(r) /\ reqs'[r].result.kind = "ok") =>
          LET json == reqs'[r].result.json
              records == parsePage(json).records
          IN /\ reqs[r].mode = "replace" => items' = records
             /\ reqs[r].mode = "append" =>
                   /\ items' = items \o records
                   /\ Len(items') = Len(items) + Len(json.results)
             /\ nextUrl' = (IF json.next \in {JNull, JUndef, ""} THEN JNull ELSE json.next)]_vars

C9_Witness ==
    /\ \E i, j \in 1..Len(items) : i < j /\ items[i].id = items[j].id
    /\ nextUrl = JNull
    /\ \A r \in Reqs : ~reqs[r].superseded /\ reqs[r].result.kind = "ok"

\* C10: when a request that was not aborted fails, error becomes a non-empty
\* message, "HTTP <status>" for a non-success status, and items and nextUrl
\* keep their values.
C10_FailureSetsError ==
    [][\A r \in Reqs : (~reqs[r].aborted /\ Settles(r) /\ reqs'[r].result.kind = "error") =>
          /\ error' \notin {JNull, JUndef, ""}
          /\ reqs'[r].result.message = "HTTP 500" => error' = "HTTP 500"
          /\ reqs'[r].result.message = "HTTP 404" => error' = "HTTP 404"
          /\ items' = items
          /\ nextUrl' = nextUrl]_vars

C10_Witness ==
    /\ error = "HTTP 500"
    /\ Len(items) > 0
    /\ nextUrl = Url(2)
    /\ reqs[Len(reqs)].result.kind = "error"

\* the initial load failed with HTTP 500 before anything else was issued
InitialLoadFailed500 ==
    /\ Len(reqs) >= 1
    /\ reqs[1].result.kind = "error"
    /\ reqs[1].result.message = "HTTP 500"
    /\ ~reqs[1].superseded

\* C11: after the initial load failed with HTTP 500, error is set and items
\* is empty; after the retry (refresh) then succeeded, error is none and
\* items holds the first page's records.
C11_RetryAfterHttp500 ==
    /\ (InitialLoadFailed500 /\ Len(reqs) = 1) => (error = "HTTP 500" /\ items = <<>>)
    /\ (InitialLoadFailed500 /\ Len(reqs) = 2 /\ reqs[2].mode = "replace"
          /\ reqs[2].result.kind = "ok") =>
            (error = JNull /\ items = MapRecords(PageRaw(1)))

C11_Witness ==
    /\ InitialLoadFailed500
    /\ Len(reqs) = 2
    /\ reqs[2].mode = "replace"
    /\ reqs[2].result.kind = "ok"
    /\ Len(items) = 2
    /\ error = JNull

\* the initial load succeeded and the first loadMore then failed
FirstLoadMoreFailed ==
    /\ Len(reqs) >= 2
    /\ reqs[1].result.kind = "ok" /\ ~reqs[1].superseded
    /\ reqs[2].mode = "append"
    /\ reqs[2].result.kind = "error" /\ ~reqs[2].superseded

\* C12: a failed loadMore leaves items and the cursor as they were and
\* loading false, so loadMore is enabled again; the next loadMore asks for
\* the same URL, and when it succeeds items is what a first-time success
\* gives.
C12_FailedLoadMoreRetry ==
    /\ (FirstLoadMoreFailed /\ Len(reqs) = 2) =>
          /\ items = MapRecords(PageRaw(1))
          /\ nextUrl = reqs[2].url
          /\ ~loading
          /\ ~(loading \/ nextUrl \in {JNull, JUndef, ""})
    /\ (FirstLoadMoreFailed /\ Len(reqs) >= 3 /\ reqs[3].mode = "append") =>
          /\ reqs[3].url = reqs[2].url
          /\ (Len(reqs) = 3 /\ reqs[3].result.kind = "ok") =>
                items = MapRecords(PageRaw(1)) \o MapRecords(PageRaw(2))

C12_Witness ==
    /\ FirstLoadMoreFailed
    /\ Len(reqs) = 3
    /\ reqs[3].mode = "append"
    /\ reqs[3].result.kind = "ok"
    /\ Len(items) = 4

\* C13: after the unmount every request in flight has an aborted signal, and
\* no step after the unmount writes items, nextUrl, loading, refreshing or
\* error.
C13_NoWriteAfterDisposal ==
    [][(~mounted /\ lastEvent # "create") =>
          /\ \A r \in Reqs : InFlight(r) => reqs[r].aborted
          /\ hook' = hook]_vars

\* C15: while the screen is mounted, the settling of a request whose signal
\* was aborted never changes error.
C15_CancelledNeverSetsError ==
    [][\A r \in Reqs : (mounted /\ reqs[r].aborted /\ Settles(r)) => error' = error]_vars

\* C17: a request is only ever added by a mount, refresh or loadMore step, one
\* per step; the continuations of a request (also of a failed one) add none
\* and never send a settled request again.
C17_NoAutomaticRequest ==
    [][/\ Len(reqs') \in {Len(reqs), Len(reqs) + 1}
       /\ Len(reqs') = Len(reqs) + 1 => lastEvent' \in {"mount", "refresh", "loadMore"}
       /\ \A r \in Reqs : /\ reqs'[r].url = reqs[r].url
                          /\ reqs'[r].mode = reqs[r].mode
                          /\ reqs[r].sent => reqs'[r].sent
                          /\ ~InFlight(r) => reqs'[r].stage = "done"]_vars

C17_Witness ==
    /\ Len(reqs) = 1
    /\ reqs[1].result.kind = "error"
    /\ lastEvent \in {"netinfo", "response", "body"}
    /\ error # JNull
    /\ mounted

\* C19: in the state right after refresh, items is empty, refreshing and
\* loading are true, and the newest request is a live replace request for
\* initialUrl.
C19_RefreshImmediate ==
    lastEvent = "refresh" =>
        /\ items = <<>>
        /\ refreshing
        /\ loading
        /\ Len(reqs) >= 1
        /\ abortRef = Len(reqs)
        /\ reqs[Len(reqs)].url = initialUrl
        /\ reqs[Len(reqs)].mode = "replace"
        /\ InFlight(Len(reqs))
        /\ ~reqs[Len(reqs)].aborted

C19_Witness ==
    /\ lastEvent = "refresh"
    /\ Len(reqs) = 3
    /\ reqs[1].result.kind = "ok"
    /\ InFlight(2)
    /\ items = <<>>

\* C20: when every issued request eventually completes, a raised loading or
\* refreshing flag is eventually followed by a state with both flags false,
\* and both flags then stay false in every step that issues no request.
C20_FlagsEventuallyFalse ==
    /\ (loading \/ refreshing) ~> (~loading /\ ~refreshing)
    /\ [][(~loading /\ ~refreshing /\ Len(reqs') = Len(reqs)) =>
              (~loading' /\ ~refreshing')]_vars

C20_Witness ==
    /\ Len(reqs) >= 2
    /\ reqs[1].superseded
    /\ Quiescent
    /\ ~loading
    /\ ~refreshing

\* C16: after a successful initial load of {results: [r1..rn], next: c}, items
\* is the records {id: text of ri.uid, name: ri.name, url: ri.url} in response
\* order (the first page gives ids "1" and "2", the second from the number
\* 2), and hasMore is true exactly when c is a non-empty cursor.
C16_InitialLoadParsed ==
    (Len(reqs) = 1 /\ reqs[1].result.kind = "ok") =>
        LET json == reqs[1].result.json IN
        /\ Len(items) = Len(json.results)
        /\ \A i \in 1..Len(items) :
              /\ items[i].id = json.results[i].uid.digits
              /\ items[i].name = json.results[i].name
              /\ items[i].url = json.results[i].url
        /\ items = <<[id |-> "1", name |-> <<"N", "1">>, url |-> "d1"],
                     [id |-> "2", name |-> <<"N", "2">>, url |-> "d2"]>>
        /\ hasMore <=> json.next \notin {JNull, JUndef, ""}
        /\ json.next \in {JNull, JUndef, ""} => nextUrl = JNull

C16_Witness ==
    /\ Len(reqs) = 1
    /\ reqs[1].result.kind = "ok"
    /\ reqs[1].result.json.next = JUndef
    /\ Len(items) = 2
    /\ ~hasMore

\* C14: right after the mount or a change of initialUrl, every older request
\* is aborted, items is empty, the cursor is the new initialUrl and a replace
\* request for it is in flight; and once initialUrl has changed, items holds
\* only records of the new collection.
C14_ResetDropsOldRecords ==
    /\ lastEvent \in {"mount", "reset"} =>
          /\ items = <<>>
          /\ nextUrl = initialUrl
          /\ \A r \in Reqs : r < Len(reqs) => reqs[r].aborted
          /\ reqs[Len(reqs)].url = initialUrl
          /\ reqs[Len(reqs)].mode = "replace"
          /\ InFlight(Len(reqs))
    /\ initialUrl = AltUrl =>
          \A i \in 1..Len(items) : \E j \in 1..Len(AltRaw) : items[i] = MapRecords(AltRaw)[j]

\* run r of the detail effect settles in this step
DetailSettles(r) == detailReqs[r].stage # "done" /\ detailReqs'[r].stage = "done"

\* C18: a run of the detail effect issues at most one GET, for its url; when
\* the run of the current url settles with a 2xx body {result:{properties:P}}
\* planet becomes exactly P (the empty mapping when result or properties is
\* missing) and error is left alone; when it settles with a failed
\* connectivity check, a fetch failure, a non-2xx status or an unreadable
\* body, error becomes a message and planet is left alone; either way
\* loading becomes false.
C18_DetailFetch ==
    [][\A r \in DetailReqs :
          /\ detailReqs'[r].gets <= 1
          /\ (detailReqs[r].mounted /\ DetailSettles(r)) =>
                /\ detailLoading' = FALSE
                /\ detailReqs'[r].result.kind = "ok" =>
                      /\ detailReqs[r].gets = 1
                      /\ detailError' = detailError
                      /\ planet' =
                            IF detailReqs'[r].result.json = [result |-> [properties |-> Properties(detailUrl)]]
                            THEN {Properties(detailUrl)}
                            ELSE {EmptyObj}
                /\ detailReqs'[r].result.kind = "error" =>
                      /\ planet' = planet
                      /\ detailError' \in {"No internet connection", "Network request failed",
                                           "Failed to load planet", "JSON Parse error"}
                                          \cup {"HTTP " \o ToString(status) : status \in ErrStatuses}]_vars

\* a fetch of the second url opened has shown its properties
C18_Witness ==
    /\ Len(detailReqs) = 2
    /\ detailReqs[2].mounted
    /\ detailReqs[2].result.kind = "ok"
    /\ planet = {Properties(detailUrl)}
    /\ detailError = JNull
    /\ ~detailLoading

\* C21: in the network-detecting copy, the step in which a load's
\* connectivity check resolves either finds it offline, and then no HTTP
\* request is sent, error becomes the no-internet message and items and
\* nextUrl stay as they are, or finds it online, and then the HTTP request
\* of a load that has not been aborted is sent and nothing else changes.
C21_OfflineSendsNothing ==
    [][\A r \in Reqs :
          (netDetect /\ reqs[r].stage = "net" /\ reqs'[r].stage # "net") =>
             \/ /\ reqs'[r].result.message = "NO_NETWORK"
                /\ reqs'[r].stage = "done"
                /\ ~reqs'[r].sent
                /\ error' = NoNetworkMessage
                /\ items' = items
                /\ nextUrl' = nextUrl
             \/ /\ ~reqs[r].aborted
                /\ reqs'[r].stage = "fetch"
                /\ reqs'[r].sent
                /\ hook' = hook
             \/ /\ reqs[r].aborted
                /\ reqs'[r].result.kind = "abort"
                /\ ~reqs'[r].sent
                /\ items' = items
                /\ nextUrl' = nextUrl]_vars

\* a loadMore found the device offline after page 1 was listed
C21_Witness ==
    /\ netDetect
    /\ Len(reqs) = 2
    /\ reqs[2].mode = "append"
    /\ reqs[2].result.message = "NO_NETWORK"
    /\ ~reqs[2].sent
    /\ error = NoNetworkMessage
    /\ items = PagesUpTo(1)
    /\ nextUrl = Url(2)

\* C22: a run of the detail effect whose cleanup has run (the screen has
\* unmounted, or the url has changed since) writes none of planet, error
\* and loading when it settles or moves on; those three change only when
\* the effect runs or when the run of the current url settles.
C22_StaleDetailNeverWrites ==
    [][/\ \A r \in DetailReqs :
             (~detailReqs[r].mounted /\ detailReqs'[r] # detailReqs[r]) =>
                <<planet, detailError, detailLoading>>' = <<planet, detailError, detailLoading>>
       /\ <<planet, detailError, detailLoading>>' # <<planet, detailError, detailLoading>> =>
             \/ Len(detailReqs') = Len(detailReqs) + 1
             \/ /\ detailPhase = "mounted"
                /\ detailReqs[Len(detailReqs)].url = detailUrl
                /\ DetailSettles(Len(detailReqs))]_vars

\* the fetch of the first url succeeded after the url had changed, and its
\* properties were not shown
C22_Witness ==
    /\ Len(detailReqs) = 2
    /\ ~detailReqs[1].mounted
    /\ detailReqs[1].result.kind = "ok"
    /\ detailReqs[1].result.json = [result |-> [properties |-> Properties(DetailUrl(1))]]
    /\ detailReqs[2].stage = "fetch"
    /\ planet = {}
    /\ detailLoading

\* C23: against the chained backend, items is always the records of pages
\* 1..k in page order, for some k from 0 up.
C23_ItemsArePagePrefix ==
    \E k \in 0..NumPages : items = PagesUpTo(k)

\* C24: refreshing is never on while loading is off.
C24_RefreshingImpliesLoading == refreshing => loading

\* a refresh is reading its response body after an earlier request settled
C24_Witness ==
    /\ refreshing
    /\ loading
    /\ Len(reqs) >= 2
    /\ reqs[Len(reqs)].mode = "replace"
    /\ reqs[Len(reqs)].stage = "body"
    /\ \A r \in Reqs : r < Len(reqs) => ~InFlight(r)

\* C25: hasMore is true once the mount effect or a reset has run, and a
\* step turns it from true to false only by applying a successful response
\* that carried no next cursor; failures, cancellations, refresh and reset
\* never do.
C25_HasMoreOnlyEndsOnLastPage ==
    [][/\ lastEvent' \in {"mount", "reset"} => hasMore'
       /\ (hasMore /\ ~hasMore') =>
             \E r \in Reqs :
                /\ Settles(r)
                /\ reqs'[r].result.kind = "ok"
                /\ Falsy(reqs'[r].result.json.next)
                /\ nextUrl' = JNull]_vars

\* the last page of the chain has been appended and the cursor is gone
C25_Witness ==
    /\ ~hasMore
    /\ items = PagesUpTo(NumPages)
    /\ reqs[Len(reqs)].result.kind = "ok"
    /\ reqs[Len(reqs)].url = Url(NumPages)

\* a text of blanks only
Blank(text) == \A i \in 1..Len(text) : text[i] = " "

\* a text that is not blank, without the blanks around it
Core(text) ==
    LET first == CHOOSE i \in 1..Len(text) : text[i] # " " /\ \A j \in 1..(i - 1) : text[j] = " "
        last == CHOOSE i \in 1..Len(text) : text[i] # " " /\ \A j \in (i + 1)..Len(text) : text[j] = " "
    IN SubSeq(text, first, last)

\* the same letter, whatever the case
SameLetter(c, d) == c = d \/ {c, d} = {"N", "n"}

\* name contains part, letter for letter, whatever the case
ContainsIgnoringCase(name, part) ==
    \E off \in 0..(Len(name) - Len(part)) :
        \A j \in 1..Len(part) : SameLetter(name[off + j], part[j])

\* C26: after the search text is set, the filtered list is items itself when
\* the text is empty or blank, and otherwise the items, in their order,
\* whose name contains the text without the blanks around it, whatever the
\* case; setting the text leaves items as it is.
C26_SearchFilter ==
    [][/\ items' = items
       /\ filteredItems' =
             IF Blank(searchText')
             THEN items
             ELSE SelectSeq(items, LAMBDA item : ContainsIgnoringCase(item.name, Core(searchText')))]_vars

\* "3 " is typed over the whole list and some records, not all, are shown
C26_Witness ==
    /\ searchText = <<"3", " ">>
    /\ Len(items) = 2 * NumPages
    /\ Len(filteredItems) > 0
    /\ Len(filteredItems) < Len(items)

\* C27: "No data yet." and the no-match message are never shown together,
\* neither is shown while loading is on or error is set, the first needs an
\* empty items and the second a non-empty items with an empty filtered list.
C27_EmptyMessagesExclusive ==
    /\ ~(showNoData /\ showNoMatches)
    /\ (loading \/ error # JNull) => (~showNoData /\ ~showNoMatches)
    /\ showNoData => items = <<>>
    /\ showNoMatches => (items # <<>> /\ filteredItems = <<>>)

\* a text no name contains is typed over a loaded list
C27_Witness ==
    /\ showNoMatches
    /\ ~showNoData
    /\ searchText = <<"n", "n">>
    /\ Len(items) > 0

\* C28: once the fetch of the current url has settled, planet is set only
\* if that fetch succeeded, and then error is not set.
C28_PlanetOnlyOfCurrentUrl ==
    (/\ detailPhase = "mounted"
     /\ detailReqs[Len(detailReqs)].stage = "done"
     /\ planet # {}) =>
        /\ detailReqs[Len(detailReqs)].result.kind = "ok"
        /\ detailError = JNull

\* C29: coords is set only after the permission was granted and the position
\* read has completed; without the grant no position is asked for and
\* coords stays null; setCoords is called at most once.
C29_CoordsOnlyAfterGrant ==
    /\ coords # {} => (permission = "granted" /\ locStage = "done")
    /\ permission \notin {JNull, "granted"} => (positionRequests = 0 /\ coords = {})
    /\ locStage \in {"returned", "rejected"} => coords = {}
    /\ positionRequests <= 1
    /\ coordsWrites <= 1

\* the position has been read after a grant
C29_Witness ==
    /\ permission = "granted"
    /\ locStage = "done"
    /\ coordsWrites = 1
    /\ coords # {}

====
